---- MODULE Spec2Model ----
(***************************************************************************)
(* sasquatch-backpack: BackpackDispatcher.post and its collaborators       *)
(* (src/src/sasquatchbackpack/sasquatch.py).                               *)
(*                                                                         *)
(* One invocation of post is a sequential chain of steps separated by its  *)
(* outbound calls: topic check, topic creation, fetch and filter, write.   *)
(* The membership cache (Redis) and the set of topics on the broker        *)
(* persist between invocations.  The value post returns is                 *)
(* json.dumps(response); the model keeps the dict `response` itself.       *)
(***************************************************************************)
EXTENDS FiniteSets, Integers, Sequences, TLC

(***************************************************************************)
(* Bounds of the model.                                                    *)
(***************************************************************************)
NumIds == 2
MaxBatch == 2

IdNames == <<"a", "b", "c", "d">>
Ids == {IdNames[i] : i \in 1..NumIds}

\* topic_name of the data sources that share the cache
TopicNames == {"test", "usgs"}

\* DispatcherConfig.namespace (default of BACKPACK_NAMESPACE)
namespace == "lsst.backpack"

\* outcome of one HTTP call: a 2xx answer, or a requests.RequestException
HttpOutcome == {"ok", "err"}

\* text of the exception a failed HTTP call raised (the `{e}` of the f-strings)
ExcText == "<e>"

\* text of a 2xx response (response.text)
ResponseText == "<response.text>"

\* a list of at most n elements of S
SeqsUpTo(S, n) == UNION {[1..k -> S] : k \in 0..n}

\* a record as a data source yields it
Record(i) == [value |-> [id |-> i]]

\* the batches a source's get_records can return
Batches == SeqsUpTo({Record(i) : i \in Ids}, MaxBatch)

\* DataSource: topic_name, uses_redis, and what get_records returns
Sources == [topic_name : TopicNames, uses_redis : BOOLEAN, records : Batches]

get_records(src) == src.records

\* a key without the topic name
get_redis_key_IdOnly(src, datapoint) == datapoint.value.id

\* TestSource.get_redis_key
get_redis_key(src, datapoint) == src.topic_name \o ":" \o datapoint.value.id

\* every key the sources of the model can derive
Keys == {t \o ":" \o i : t \in TopicNames, i \in Ids}

\* "{namespace}.{topic_name}"
FullTopicName(src) == namespace \o "." \o src.topic_name

\* the empty dict {}
EmptyDict == [k \in {} |-> ""]

Report(status, message) == [status |-> status, message |-> message]

\* an outbound call: an HTTP request, a Redis command, or the source's fetch
Call(op, arg) == [op |-> op, arg |-> arg]

VARIABLES
    cache,          \* keys present on the Redis server
    brokerTopics,   \* fully-qualified names of the topics on the broker
    pc,             \* position of post: idle, check_topic, create_topic,
                    \*   get_records, write_values, returned, raised
    source,         \* the dispatcher's DataSource
    force_post,     \* argument of post
    response,       \* local `response` of post
    topic_exists,   \* local `topic_exists` of post: "None", "True", "False"
    records,        \* local `records` of post
    payload,        \* local `payload` of post
    raised,         \* exception that left post, "" if none
    calls,          \* outbound calls this invocation issued, in order
    env,            \* how each dependency answered (or would answer) this
                    \*   invocation
    cache0,         \* cache contents when this invocation started
    method,         \* transport selected for publish; "" for post, which
                    \*   takes none
    peer,           \* a second invocation of post on the same source by
                    \*   another caller: its position and locals
    cli,            \* the usgs_earthquake_data command: its stage, the
                    \*   arguments it was given, what it echoed, and whether
                    \*   it called post
    undelivered     \* history: keys of the records that were in the batch
                    \*   of an invocation whose delivery failed, and that no
                    \*   later invocation delivered

vars == <<cache, brokerTopics, pc, source, force_post, response,
          topic_exists, records, payload, raised, calls, env, cache0,
          method, peer, cli, undelivered>>

(***************************************************************************)
(* RedisManager                                                            *)
(***************************************************************************)
\* store that sends nothing to the server
store_Drops(c, key) == c

\* store that empties the database before it sets the key
store_Replaces(c, key) == {key}

\* RedisManager.store(key): SET key "value"
store(c, key) == c \cup {key}

\* RedisManager.get(key): the stored value, None if the key is not found
get(c, key) == IF key \in c THEN "value" ELSE "None"

(***************************************************************************)
(* Name resolution inside post.  Line 340, `requests = response["requests"]`, *)
(* makes `requests` a local of post bound to a dict, so that every later   *)
(* `requests.<attr>` in post is an attribute lookup on that dict and not   *)
(* on the HTTP library (the module the other methods use).                 *)
(***************************************************************************)
requests_in_post == "dict"

\* getattr(obj, attr) succeeds: a dict has neither `request` nor
\* `RequestException`
hasattr(obj, attr) == obj = "module"

(***************************************************************************)
(* Topic provisioning                                                      *)
(***************************************************************************)
\* _get_topic_exists answering False when the topic listing fails
_get_topic_exists_ListingFailureIsFalse(src, topics, clusters, listing) ==
    IF clusters = "err"
    THEN [type |-> "str",
          str |-> "Error getting cluster ID: " \o ExcText,
          calls |-> <<Call("GET", "/v3/clusters")>>]
    ELSE [type |-> "bool",
          bool |-> /\ listing = "ok"
                   /\ \E topic \in topics : topic = FullTopicName(src),
          calls |-> <<Call("GET", "/v3/clusters"),
                      Call("GET", "/v3/clusters/{cluster_id}/topics")>>]

\* _get_topic_exists testing topic["topic_name"].startswith(topic_name): a
\* listed name that begins with the dispatcher's counts
_get_topic_exists_StartsWith(src, topics, clusters, listing) ==
    IF clusters = "err"
    THEN [type |-> "str",
          str |-> "Error getting cluster ID: " \o ExcText,
          calls |-> <<Call("GET", "/v3/clusters")>>]
    ELSE IF listing = "err"
    THEN [type |-> "str",
          str |-> "Error Creating Topic during POST: " \o ExcText,
          calls |-> <<Call("GET", "/v3/clusters"),
                      Call("GET", "/v3/clusters/{cluster_id}/topics")>>]
    ELSE [type |-> "bool",
          bool |-> \E topic \in topics, suffix \in {"", "_v2"} :
                      topic = FullTopicName(src) \o suffix,
          calls |-> <<Call("GET", "/v3/clusters"),
                      Call("GET", "/v3/clusters/{cluster_id}/topics")>>]

\* BackpackDispatcher._get_topic_exists: a bool, or a str on a failed call
_get_topic_exists(src, topics, clusters, listing) ==
    IF clusters = "err"
    THEN [type |-> "str",
          str |-> "Error getting cluster ID: " \o ExcText,
          calls |-> <<Call("GET", "/v3/clusters")>>]
    ELSE IF listing = "err"
    THEN [type |-> "str",
          str |-> "Error Creating Topic during POST: " \o ExcText,
          calls |-> <<Call("GET", "/v3/clusters"),
                      Call("GET", "/v3/clusters/{cluster_id}/topics")>>]
    ELSE [type |-> "bool",
          bool |-> \E topic \in topics : topic = FullTopicName(src),
          calls |-> <<Call("GET", "/v3/clusters"),
                      Call("GET", "/v3/clusters/{cluster_id}/topics")>>]

\* BackpackDispatcher._handle_topic_exists: fills request["check_topic"] and
\* returns None on an error, else whether the topic was found
_handle_topic_exists(request, src, topics, clusters, listing) ==
    LET found == _get_topic_exists(src, topics, clusters, listing) IN
    IF found.type = "str"
    THEN [ret |-> "None",
          request |-> [request EXCEPT !.check_topic =
              Report("Error", "Topic check failed: \n" \o found.str)],
          calls |-> found.calls]
    ELSE [ret |-> IF found.bool THEN "True" ELSE "False",
          request |-> [request EXCEPT !.check_topic =
              Report("Success",
                     "Sasquatch backpack "
                     \o (IF found.bool THEN "found" ELSE "did not find")
                     \o " \"" \o FullTopicName(src) \o "\" on remote.")],
          calls |-> found.calls]

\* a creation request with topic_name alone for the name of the topic
_post_new_topic_BareName(src, clusters, posting) ==
    IF clusters = "err"
    THEN [ret |-> Report("Error", "Error getting cluster ID: " \o ExcText),
          calls |-> <<Call("GET", "/v3/clusters")>>,
          created |-> {}]
    ELSE IF posting = "err"
    THEN [ret |-> Report("Error",
                         "Error Creating Topic during POST: " \o ExcText),
          calls |-> <<Call("GET", "/v3/clusters"),
                      Call("POST", "/v3/clusters/{cluster_id}/topics")>>,
          created |-> {}]
    ELSE [ret |-> Report("Success", ResponseText),
          calls |-> <<Call("GET", "/v3/clusters"),
                      Call("POST", "/v3/clusters/{cluster_id}/topics")>>,
          created |-> {src.topic_name}]

\* a creation put off until there is something to write: with nothing
\* fetched the topic is reported created and no request is made
_post_new_topic_SkipsEmptyBatch(src, clusters, posting) ==
    IF clusters = "err"
    THEN [ret |-> Report("Error", "Error getting cluster ID: " \o ExcText),
          calls |-> <<Call("GET", "/v3/clusters")>>,
          created |-> {}]
    ELSE IF get_records(src) = <<>>
    THEN [ret |-> Report("Success", ResponseText),
          calls |-> <<Call("GET", "/v3/clusters")>>,
          created |-> {}]
    ELSE IF posting = "err"
    THEN [ret |-> Report("Error",
                         "Error Creating Topic during POST: " \o ExcText),
          calls |-> <<Call("GET", "/v3/clusters"),
                      Call("POST", "/v3/clusters/{cluster_id}/topics")>>,
          created |-> {}]
    ELSE [ret |-> Report("Success", ResponseText),
          calls |-> <<Call("GET", "/v3/clusters"),
                      Call("POST", "/v3/clusters/{cluster_id}/topics")>>,
          created |-> {FullTopicName(src)}]

\* BackpackDispatcher._post_new_topic: the report of the creation request
_post_new_topic(src, clusters, posting) ==
    IF clusters = "err"
    THEN [ret |-> Report("Error", "Error getting cluster ID: " \o ExcText),
          calls |-> <<Call("GET", "/v3/clusters")>>,
          created |-> {}]
    ELSE IF posting = "err"
    THEN [ret |-> Report("Error",
                         "Error Creating Topic during POST: " \o ExcText),
          calls |-> <<Call("GET", "/v3/clusters"),
                      Call("POST", "/v3/clusters/{cluster_id}/topics")>>,
          created |-> {}]
    ELSE [ret |-> Report("Success", ResponseText),
          calls |-> <<Call("GET", "/v3/clusters"),
                      Call("POST", "/v3/clusters/{cluster_id}/topics")>>,
          created |-> {FullTopicName(src)}]

(***************************************************************************)
(* Fetch and filter                                                        *)
(***************************************************************************)
\* Filter with the membership test inverted (`is not None`)
RECURSIVE Filter_KeepsCached(_, _, _)
Filter_KeepsCached(recs, src, c) ==
    IF recs = <<>> THEN <<>>
    ELSE (IF get(c, get_redis_key(src, Head(recs))) # "None"
          THEN <<Head(recs)>> ELSE <<>>)
         \o Filter_KeepsCached(Tail(recs), src, c)

\* Filter building its list from the back
RECURSIVE Filter_Reversed(_, _, _)
Filter_Reversed(recs, src, c) ==
    IF recs = <<>> THEN <<>>
    ELSE Filter_Reversed(Tail(recs), src, c)
         \o (IF get(c, get_redis_key(src, Head(recs))) = "None"
             THEN <<Head(recs)>> ELSE <<>>)

\* a filter that also drops a record whose key an earlier record of the
\* same batch had
RECURSIVE Filter_SeenInBatch(_, _, _)
Filter_SeenInBatch(recs, src, c) ==
    IF recs = <<>> THEN <<>>
    ELSE (IF get(c, get_redis_key(src, Head(recs))) = "None"
          THEN <<Head(recs)>> ELSE <<>>)
         \o Filter_SeenInBatch(Tail(recs), src,
                               store(c, get_redis_key(src, Head(recs))))

\* lines 296-300: [record for record in records if redis.get(key) is None]
RECURSIVE Filter(_, _, _)
Filter(recs, src, c) ==
    IF recs = <<>> THEN <<>>
    ELSE (IF get(c, get_redis_key(src, Head(recs))) = "None"
          THEN <<Head(recs)>> ELSE <<>>)
         \o Filter(Tail(recs), src, c)

\* what _get_source_records hands back when an exception leaves it
Raises(exc, issued) ==
    [none |-> TRUE, list |-> <<>>, calls |-> issued, raised |-> exc]

\* the Redis lookups of the comprehension, one per fetched record
RedisGets(src, recs) ==
    [i \in 1..Len(recs) |-> Call("redis.get", get_redis_key(src, recs[i]))]

\* _get_source_records returning the fetched batch without the cache lookup
_get_source_records_Unfiltered(src, c, fetching, lookup) ==
    LET recs == get_records(src)
        fetch == <<Call("source.get_records", "")>> IN
    IF fetching = "err" THEN Raises("ConnectionError", fetch)
    ELSE IF Len(recs) = 0
    THEN [none |-> TRUE, list |-> <<>>, calls |-> fetch, raised |-> ""]
    ELSE [none |-> FALSE, list |-> recs, calls |-> fetch, raised |-> ""]

\* _get_source_records without the `len(records) == 0` test
_get_source_records_NoEmptyTest(src, c, fetching, lookup) ==
    LET recs == get_records(src)
        fetch == <<Call("source.get_records", "")>> IN
    IF fetching = "err" THEN Raises("ConnectionError", fetch)
    ELSE IF ~src.uses_redis
    THEN [none |-> FALSE, list |-> recs, calls |-> fetch, raised |-> ""]
    ELSE IF lookup = "err" /\ Len(recs) > 0
    THEN Raises("redis.ConnectionError",
                fetch \o SubSeq(RedisGets(src, recs), 1, 1))
    ELSE [none |-> FALSE, list |-> Filter(recs, src, c),
          calls |-> fetch \o RedisGets(src, recs), raised |-> ""]

\* _get_source_records without the `uses_redis` test
_get_source_records_AlwaysFilters(src, c, fetching, lookup) ==
    LET recs == get_records(src)
        fetch == <<Call("source.get_records", "")>> IN
    IF fetching = "err" THEN Raises("ConnectionError", fetch)
    ELSE IF Len(recs) = 0
    THEN [none |-> TRUE, list |-> <<>>, calls |-> fetch, raised |-> ""]
    ELSE IF lookup = "err"
    THEN Raises("redis.ConnectionError",
                fetch \o SubSeq(RedisGets(src, recs), 1, 1))
    ELSE [none |-> FALSE, list |-> Filter(recs, src, c),
          calls |-> fetch \o RedisGets(src, recs), raised |-> ""]

\* BackpackDispatcher._get_source_records: None for an empty batch, the
\* batch itself without uses_redis, else the records whose key is not cached.
\* Neither source.get_records() (line 288) nor redis.get (line 299) is inside
\* a try: a ConnectionError of the source (scripts/usgs.py 153-156) or of the
\* first Redis lookup leaves the method.
_get_source_records(src, c, fetching, lookup) ==
    LET recs == get_records(src)
        fetch == <<Call("source.get_records", "")>> IN
    IF fetching = "err" THEN Raises("ConnectionError", fetch)
    ELSE IF Len(recs) = 0
    THEN [none |-> TRUE, list |-> <<>>, calls |-> fetch, raised |-> ""]
    ELSE IF ~src.uses_redis
    THEN [none |-> FALSE, list |-> recs, calls |-> fetch, raised |-> ""]
    ELSE IF lookup = "err"
    THEN Raises("redis.ConnectionError",
                fetch \o SubSeq(RedisGets(src, recs), 1, 1))
    ELSE [none |-> FALSE, list |-> Filter(recs, src, c),
          calls |-> fetch \o RedisGets(src, recs), raised |-> ""]

(***************************************************************************)
(* BackpackDispatcher.post                                                 *)
(***************************************************************************)
\* the response starting out as succeeded
InitialResponse_Succeeded ==
    [succeeded |-> TRUE,
     requests |-> [check_topic |-> EmptyDict,
                   create_topic |-> EmptyDict,
                   write_values |-> EmptyDict],
     records |-> <<>>]

\* lines 331-339
InitialResponse ==
    [succeeded |-> FALSE,
     requests |-> [check_topic |-> EmptyDict,
                   create_topic |-> EmptyDict,
                   write_values |-> EmptyDict],
     records |-> <<>>]

NoRecords == [none |-> TRUE, list |-> <<>>]
NoPayload == [assembled |-> FALSE, records |-> <<>>]
NoEnv == [check_clusters |-> "unused", check_topics |-> "unused",
          create_clusters |-> "unused", create_post |-> "unused",
          get_records |-> "unused", redis_get |-> "unused",
          write_post |-> "unused", redis_store |-> "unused"]

\* the locals of an invocation that has not started
IdlePeer ==
    [pc |-> "idle", response |-> InitialResponse, topic_exists |-> "None",
     records |-> NoRecords, payload |-> NoPayload, raised |-> "",
     calls |-> <<>>, env |-> NoEnv]

\* the arguments of a command line: duration (days, hours), radius, coords
\* and magnitude bounds, and the --post flag
Argv(days, hours, radius, latitude, longitude, lower, upper, post) ==
    [duration |-> <<days, hours>>, radius |-> radius,
     coords |-> <<latitude, longitude>>,
     magnitude_bounds |-> <<lower, upper>>, post |-> post]

\* DEFAULT_RADIUS, DEFAULT_COORDS (in whole degrees), DEFAULT_MAGNITUDE_BOUNDS
\* and no --post, with the 50 days of the common usage
DefaultArgv == Argv(50, 0, 400, -30, -70, 2, 10, FALSE)

\* click.BadParameter with the words of its message that tell the cases apart
BadParameter(names, says) == [names |-> names, says |-> says]

\* the callback returned the value
Accepted == BadParameter("", "")

\* no command is running
IdleCli ==
    [phase |-> "idle", argv |-> DefaultArgv, error |-> Accepted,
     output |-> <<>>, queried |-> FALSE, posted |-> FALSE]

MsgBypass ==
    "Relevant topic already exists in kafka, " \o "bypassing creation"
    \o " POST request."
MsgNoEntries == "No entries found" \o ", aborting POST request"
MsgAllPresent == "All entries already present" \o ", aborting POST request"

Init ==
    /\ cache = {}
    /\ brokerTopics = {}
    /\ pc = "idle"
    /\ source = [topic_name |-> "test", uses_redis |-> TRUE, records |-> <<>>]
    /\ force_post = FALSE
    /\ response = InitialResponse
    /\ topic_exists = "None"
    /\ records = NoRecords
    /\ payload = NoPayload
    /\ raised = ""
    /\ calls = <<>>
    /\ env = NoEnv
    /\ cache0 = {}
    /\ method = ""
    /\ peer = IdlePeer
    /\ cli = IdleCli
    /\ undelivered = {}

\* A client stores a key directly (RedisManager.store), between invocations.
Store ==
    /\ pc = "idle"
    /\ UNCHANGED <<method, peer, cli, undelivered>>
    /\ \E key \in Keys :
         /\ cache' = store(cache, key)
         /\ cache0' = store(cache, key)
    /\ UNCHANGED <<brokerTopics, pc, source, force_post, response,
                   topic_exists, records, payload, raised, calls, env>>

\* The caller builds a dispatcher on a source and enters post (lines 331-340).
Invoke ==
    /\ pc = "idle"
    /\ \E src \in Sources, force \in BOOLEAN :
         /\ source' = src
         /\ force_post' = force
    /\ response' = InitialResponse
    /\ topic_exists' = "None"
    /\ records' = NoRecords
    /\ payload' = NoPayload
    /\ raised' = ""
    /\ calls' = <<>>
    /\ env' = NoEnv
    /\ cache0' = cache
    /\ pc' = "check_topic"
    /\ method' = ""
    /\ UNCHANGED <<cache, brokerTopics, peer, cli, undelivered>>

\* lines 344-345 with the check ignored under force_post
AfterCheck_ForceIgnoresError(ret, force) ==
    IF ret = "None" /\ ~force THEN "returned" ELSE "create_topic"

\* lines 344-345: `if topic_exists is None: return`
AfterCheck(ret, force) ==
    IF ret = "None" THEN "returned" ELSE "create_topic"

\* line 347 without force_post
NeedsCreation_IgnoresForce(force, exists) == exists # "True"

\* line 347: `if force_post or not topic_exists`
NeedsCreation(force, exists) == force \/ exists # "True"

\* lines 349-350 going on after a failed creation
AfterCreate_IgnoresError(report) == "get_records"

\* lines 349-350 checking the topic again after the creation
AfterCreate_ChecksAgain(report) ==
    IF report.status = "Error" THEN "returned" ELSE "check_topic"

\* lines 349-350: `if requests["create_topic"]["status"] == "Error": return`
AfterCreate(report) ==
    IF report.status = "Error" THEN "returned" ELSE "get_records"

\* lines 342-345
PostCheckTopic ==
    /\ pc = "check_topic"
    /\ UNCHANGED <<method, peer, cli, undelivered>>
    /\ \E clusters \in HttpOutcome, listing \in HttpOutcome :
         LET r == _handle_topic_exists(response.requests, source,
                                       brokerTopics, clusters, listing) IN
         /\ env' = [env EXCEPT !.check_clusters = clusters,
                               !.check_topics =
                                   IF clusters = "ok" THEN listing
                                   ELSE "unused"]
         /\ response' = [response EXCEPT !.requests = r.request]
         /\ topic_exists' = r.ret
         /\ calls' = calls \o r.calls
         /\ pc' = AfterCheck(r.ret, force_post)
    /\ UNCHANGED <<cache, brokerTopics, source, force_post, records,
                   payload, raised, cache0>>

\* lines 347-350
PostCreateTopic ==
    /\ pc = "create_topic"
    /\ UNCHANGED <<method, peer, cli, undelivered>>
    /\ NeedsCreation(force_post, topic_exists)
    /\ \E clusters \in HttpOutcome, posting \in HttpOutcome :
         LET r == _post_new_topic(source, clusters, posting) IN
         /\ env' = [env EXCEPT !.create_clusters = clusters,
                               !.create_post =
                                   IF clusters = "ok" THEN posting
                                   ELSE "unused"]
         /\ response' = [response EXCEPT !.requests.create_topic = r.ret]
         /\ brokerTopics' = brokerTopics \cup r.created
         /\ calls' = calls \o r.calls
         /\ pc' = AfterCreate(r.ret)
    /\ UNCHANGED <<cache, source, force_post, topic_exists, records,
                   payload, raised, cache0>>

\* PostBypassCreation returning once the report is recorded
PostBypassCreation_Returns ==
    /\ pc = "create_topic"
    /\ UNCHANGED <<method, peer, cli, undelivered>>
    /\ ~NeedsCreation(force_post, topic_exists)
    /\ response' = [response EXCEPT !.requests.create_topic =
                        Report("Success", MsgBypass)]
    /\ pc' = "returned"
    /\ UNCHANGED <<cache, brokerTopics, source, force_post, topic_exists,
                   records, payload, raised, calls, env, cache0>>

\* lines 351-358
PostBypassCreation ==
    /\ pc = "create_topic"
    /\ UNCHANGED <<method, peer, cli, undelivered>>
    /\ ~NeedsCreation(force_post, topic_exists)
    /\ response' = [response EXCEPT !.requests.create_topic =
                        Report("Success", MsgBypass)]
    /\ pc' = "get_records"
    /\ UNCHANGED <<cache, brokerTopics, source, force_post, topic_exists,
                   records, payload, raised, calls, env, cache0>>

\* PostGetSourceRecords marking the records it keeps as seen while filtering
PostGetSourceRecords_StoresKeys ==
    /\ pc = "get_records"
    /\ UNCHANGED <<method, peer, cli, undelivered>>
    /\ \E fetching \in HttpOutcome, lookup \in HttpOutcome :
       LET r == _get_source_records(source, cache, fetching, lookup) IN
       /\ env' = [env EXCEPT !.get_records = fetching,
                             !.redis_get =
                                 IF \E i \in DOMAIN r.calls :
                                        r.calls[i].op = "redis.get"
                                 THEN lookup ELSE "unused"]
       /\ records' = [none |-> r.none, list |-> r.list]
       /\ calls' = calls \o r.calls
       /\ raised' = r.raised
       /\ cache' = IF source.uses_redis
                   THEN cache \cup {get_redis_key(source, r.list[i]) :
                                      i \in DOMAIN r.list}
                   ELSE cache
       /\ IF r.raised # ""
          THEN /\ response' = response
               /\ payload' = payload
               /\ pc' = "raised"
          ELSE IF r.none
          THEN /\ response' = [response EXCEPT !.requests.write_values =
                                   Report("Warning", MsgNoEntries)]
               /\ payload' = payload
               /\ pc' = "returned"
          ELSE IF Len(r.list) = 0
          THEN /\ response' = [response EXCEPT !.requests.write_values =
                                   Report("Warning", MsgAllPresent)]
               /\ payload' = payload
               /\ pc' = "returned"
          ELSE /\ response' = response
               /\ payload' = [assembled |-> TRUE, records |-> r.list]
               /\ pc' = "write_values"
    /\ UNCHANGED <<brokerTopics, source, force_post, topic_exists, cache0>>

\* lines 360-378
PostGetSourceRecords ==
    /\ pc = "get_records"
    /\ UNCHANGED <<method, peer, cli, undelivered>>
    /\ \E fetching \in HttpOutcome, lookup \in HttpOutcome :
       LET r == _get_source_records(source, cache, fetching, lookup) IN
       /\ env' = [env EXCEPT !.get_records = fetching,
                             !.redis_get =
                                 IF \E i \in DOMAIN r.calls :
                                        r.calls[i].op = "redis.get"
                                 THEN lookup ELSE "unused"]
       /\ records' = [none |-> r.none, list |-> r.list]
       /\ calls' = calls \o r.calls
       /\ raised' = r.raised
       /\ IF r.raised # ""
          THEN /\ response' = response
               /\ payload' = payload
               /\ pc' = "raised"
          ELSE IF r.none
          THEN /\ response' = [response EXCEPT !.requests.write_values =
                                   Report("Warning", MsgNoEntries)]
               /\ payload' = payload
               /\ pc' = "returned"
          ELSE IF Len(r.list) = 0
          THEN /\ response' = [response EXCEPT !.requests.write_values =
                                   Report("Warning", MsgAllPresent)]
               /\ payload' = payload
               /\ pc' = "returned"
          ELSE /\ response' = response
               /\ payload' = [assembled |-> TRUE, records |-> r.list]
               /\ pc' = "write_values"
    /\ UNCHANGED <<cache, brokerTopics, source, force_post, topic_exists,
                   cache0>>

\* lines 380-383: "{rest_proxy_url}/topics/{namespace}.{topic_name}"
WriteUrl(src) == "/topics/" \o FullTopicName(src)

\* one record per request instead of one request for the batch
WriteRequests_PerRecord(src, p) ==
    [i \in DOMAIN p.records |->
        [op |-> "POST", arg |-> WriteUrl(src), json |-> <<p.records[i]>>]]

\* lines 378-397: the requests the write step makes: one POST to the topic's
\* url whose body (json=payload) holds every record of the filtered batch
WriteRequests(src, p) ==
    <<[op |-> "POST", arg |-> WriteUrl(src), json |-> p.records]>>

\* the store loop leaving after its first record
StoreAll_OnlyFirst(c, src, recs) ==
    IF recs = <<>> THEN c ELSE store(c, get_redis_key(src, Head(recs)))

\* lines 408-410: store the key of every record, in order
RECURSIVE StoreAll(_, _, _)
StoreAll(c, src, recs) ==
    IF recs = <<>> THEN c
    ELSE StoreAll(store(c, get_redis_key(src, Head(recs))), src, Tail(recs))

\* lines 390-416.  `requests.request` is looked up before the request is
\* made; when the lookup fails, so does the lookup of
\* `requests.RequestException` in the except clause, and the AttributeError
\* leaves post.
PostWriteValues ==
    /\ pc = "write_values"
    /\ UNCHANGED <<method, peer, cli, undelivered>>
    /\ \E answer \in HttpOutcome, storing \in HttpOutcome :
         /\ env' = [env EXCEPT !.write_post = answer,
                               !.redis_store = IF source.uses_redis
                                               THEN storing ELSE "unused"]
         /\ IF ~hasattr(requests_in_post, "request")
            THEN /\ raised' = "AttributeError"
                 /\ pc' = "raised"
                 /\ UNCHANGED <<cache, response, calls>>
            ELSE IF answer = "err"
            THEN /\ response' = ("write_values" :>
                                    Report("Error",
                                           "Error writing values during POST: "
                                           \o ExcText)) @@ response
                 /\ calls' = calls \o WriteRequests(source, payload)
                 /\ pc' = "returned"
                 /\ UNCHANGED <<cache, raised>>
            ELSE IF source.uses_redis /\ storing = "err"
            THEN \* redis.store (line 410) is not inside a try
                 /\ raised' = "redis.ConnectionError"
                 /\ calls' = calls \o WriteRequests(source, payload)
                             \o <<Call("redis.store", get_redis_key(
                                      source, payload.records[1]))>>
                 /\ pc' = "raised"
                 /\ UNCHANGED <<cache, response>>
            ELSE /\ cache' = IF source.uses_redis
                             THEN StoreAll(cache, source, payload.records)
                             ELSE cache
                 /\ response' = ("write_values" :>
                                    Report("Success", ResponseText))
                                @@ response
                 /\ calls' = calls \o WriteRequests(source, payload)
                             \o (IF source.uses_redis
                                 THEN [i \in 1..Len(payload.records) |->
                                         Call("redis.store", get_redis_key(
                                             source, payload.records[i]))]
                                 ELSE <<>>)
                 /\ pc' = "returned"
                 /\ UNCHANGED raised
    /\ UNCHANGED <<brokerTopics, source, force_post, topic_exists, records,
                   payload, cache0>>

\* post has ended (its frame and the dispatcher are dropped); the caller may
\* build a dispatcher and invoke again
Finish ==
    /\ pc \in {"returned", "raised"}
    /\ peer.pc = "idle"
    /\ pc' = "idle"
    /\ method' = ""
    /\ peer' = peer
    /\ cli' = cli
    /\ undelivered' = undelivered
    /\ source' = [topic_name |-> "test", uses_redis |-> TRUE,
                  records |-> <<>>]
    /\ force_post' = FALSE
    /\ response' = InitialResponse
    /\ topic_exists' = "None"
    /\ records' = NoRecords
    /\ payload' = NoPayload
    /\ raised' = ""
    /\ calls' = <<>>
    /\ env' = NoEnv
    /\ cache0' = cache
    /\ UNCHANGED <<cache, brokerTopics>>

Next ==
    \/ Store
    \/ Invoke
    \/ PostCheckTopic
    \/ PostCreateTopic
    \/ PostBypassCreation
    \/ PostGetSourceRecords
    \/ PostWriteValues
    \/ Finish

Spec == Init /\ [][Next]_vars

(***************************************************************************)
(* publish(method, force): the entry point the tests call                  *)
(* (dispatcher.publish(), tests/dispatcher_test.py 93, 112).  Its check,   *)
(* creation and fetch steps are those of post; the selection of the        *)
(* transport and the delivery follow the specification, sections 4.4 and   *)
(* 4.5.                                                                    *)
(***************************************************************************)
\* NONE | DIRECT_CONNECTION | REST_API, and a selection outside the enum
Methods == {"NONE", "DIRECT_CONNECTION", "REST_API", "CARRIER_PIGEON"}

Recognized == {"DIRECT_CONNECTION", "REST_API"}

\* an unrecognized selection falling back to the REST proxy
SelectPublisher_FallsBack(m) ==
    [found |-> TRUE, method |-> IF m \in Recognized THEN m ELSE "REST_API",
     report |-> EmptyDict]

\* the publisher for a method; NONE or an unrecognized one is an error
SelectPublisher(m) ==
    IF m \in Recognized
    THEN [found |-> TRUE, method |-> m, report |-> EmptyDict]
    ELSE [found |-> FALSE, method |-> m,
          report |-> Report("Error", "no publisher found for " \o m)]

PublishInvoke ==
    /\ pc = "idle"
    /\ \E src \in Sources, force \in BOOLEAN, m \in Methods :
         /\ source' = src
         /\ force_post' = force
         /\ method' = m
    /\ response' = InitialResponse
    /\ topic_exists' = "None"
    /\ records' = NoRecords
    /\ payload' = NoPayload
    /\ raised' = ""
    /\ calls' = <<>>
    /\ env' = NoEnv
    /\ cache0' = cache
    /\ pc' = "check_topic"
    /\ UNCHANGED <<cache, brokerTopics, peer, cli, undelivered>>

\* steps 4 to 6: deliver through the selected transport, commit the keys
\* of the delivered records, report
PublishDeliver ==
    /\ pc = "write_values"
    /\ method # ""
    /\ LET sel == SelectPublisher(method) IN
       IF ~sel.found
       THEN /\ response' = [response EXCEPT !.requests.write_values =
                                sel.report]
            /\ pc' = "returned"
            /\ UNCHANGED <<cache, calls, env>>
       ELSE \E answer \in HttpOutcome :
            LET sent == [i \in DOMAIN WriteRequests(source, payload) |->
                            [op |-> "deliver", arg |-> sel.method,
                             url |-> WriteRequests(source, payload)[i].arg,
                             json |-> WriteRequests(source, payload)[i].json]]
            IN
            /\ env' = [env EXCEPT !.write_post = answer]
            /\ IF answer = "err"
               THEN /\ response' = [response EXCEPT
                        !.requests.write_values =
                            Report("Error", "delivery failed: " \o ExcText)]
                    /\ calls' = calls \o sent
                    /\ cache' = cache
               ELSE /\ response' = [response EXCEPT
                        !.succeeded = TRUE,
                        !.requests.write_values =
                            Report("Success", ResponseText),
                        !.records = payload.records]
                    /\ calls' = calls \o sent
                                \o (IF source.uses_redis
                                    THEN [i \in 1..Len(payload.records) |->
                                            Call("redis.store",
                                                 get_redis_key(source,
                                                     payload.records[i]))]
                                    ELSE <<>>)
                    /\ cache' = IF source.uses_redis
                                THEN StoreAll(cache, source, payload.records)
                                ELSE cache
            /\ pc' = "returned"
    /\ UNCHANGED <<brokerTopics, source, force_post, topic_exists, records,
                   payload, raised, cache0, method, peer, cli, undelivered>>

NextPublish ==
    \/ Store
    \/ PublishInvoke
    \/ PostCheckTopic
    \/ PostCreateTopic
    \/ PostBypassCreation
    \/ PostGetSourceRecords
    \/ PublishDeliver
    \/ Finish

SpecPublish == Init /\ [][NextPublish]_vars

\* the uses_redis sources whose batch has no two records of the same key
DistinctKeySources ==
    {src \in Sources :
        /\ src.uses_redis
        /\ \A i, j \in DOMAIN get_records(src) :
             get_redis_key(src, get_records(src)[i])
                 = get_redis_key(src, get_records(src)[j]) => i = j}

\* publish invoked on such a source
SequentialInvoke ==
    /\ pc = "idle"
    /\ \E src \in DistinctKeySources, force \in BOOLEAN, m \in Methods :
         /\ source' = src
         /\ force_post' = force
         /\ method' = m
    /\ response' = InitialResponse
    /\ topic_exists' = "None"
    /\ records' = NoRecords
    /\ payload' = NoPayload
    /\ raised' = ""
    /\ calls' = <<>>
    /\ env' = NoEnv
    /\ cache0' = cache
    /\ pc' = "check_topic"
    /\ UNCHANGED <<cache, brokerTopics, peer, cli, undelivered>>

\* publish invoked time after time on a cache that no other client writes:
\* the cache holds the keys the invocations committed, and nothing else
NextSequential ==
    \/ SequentialInvoke
    \/ PostCheckTopic
    \/ PostCreateTopic
    \/ PostBypassCreation
    \/ PostGetSourceRecords
    \/ PublishDeliver
    \/ Finish

SpecSequential == Init /\ [][NextSequential]_vars

(***************************************************************************)
(* Invocations one after the other on a cache that no other client writes, *)
(* with a record kept of the batches whose delivery failed: the write step *)
(* was entered (lines 378-399) and post ended without a write request      *)
(* answered 2xx.                                                           *)
(***************************************************************************)
FinishNoting ==
    /\ pc \in {"returned", "raised"}
    /\ peer.pc = "idle"
    /\ LET batch == {get_redis_key(source, payload.records[i]) :
                        i \in DOMAIN payload.records}
           sent == \E i \in DOMAIN calls :
                       calls[i].op = "POST" /\ calls[i].arg = WriteUrl(source)
       IN undelivered' =
              IF ~payload.assembled THEN undelivered
              ELSE IF sent /\ env.write_post = "ok"
              THEN undelivered \ batch
              ELSE undelivered \cup batch
    /\ pc' = "idle"
    /\ method' = ""
    /\ source' = [topic_name |-> "test", uses_redis |-> TRUE,
                  records |-> <<>>]
    /\ force_post' = FALSE
    /\ response' = InitialResponse
    /\ topic_exists' = "None"
    /\ records' = NoRecords
    /\ payload' = NoPayload
    /\ raised' = ""
    /\ calls' = <<>>
    /\ env' = NoEnv
    /\ cache0' = cache
    /\ UNCHANGED <<cache, brokerTopics, peer, cli>>

NextRetry ==
    \/ Invoke
    \/ PostCheckTopic
    \/ PostCreateTopic
    \/ PostBypassCreation
    \/ PostGetSourceRecords
    \/ PostWriteValues
    \/ FinishNoting

SpecRetry == Init /\ [][NextRetry]_vars

(***************************************************************************)
(* A cluster shared with other clients.  The listing the check reads       *)
(* (lines 176-186) holds every topic of the cluster, not only those the    *)
(* dispatcher created: here the namespace itself, a prefix of every        *)
(* dispatcher's name, and names that begin with a dispatcher's name.       *)
(***************************************************************************)
OtherTopics ==
    {namespace} \cup {namespace \o "." \o t \o "_v2" : t \in TopicNames}

OtherClientCreates ==
    /\ pc = "idle"
    /\ \E topic \in OtherTopics : brokerTopics' = brokerTopics \cup {topic}
    /\ UNCHANGED <<cache, pc, source, force_post, response, topic_exists,
                   records, payload, raised, calls, env, cache0, method,
                   peer, cli, undelivered>>

NextCluster ==
    \/ OtherClientCreates
    \/ Invoke
    \/ PostCheckTopic
    \/ PostCreateTopic
    \/ PostBypassCreation
    \/ PostGetSourceRecords
    \/ PostWriteValues
    \/ Finish

SpecCluster == Init /\ [][NextCluster]_vars

(***************************************************************************)
(* Sources that share one cache.  topic_name is any str (line 27) and a    *)
(* record id is whatever the remote API returns: neither is kept from      *)
(* holding the ":" that get_redis_key puts between them.                   *)
(***************************************************************************)
SharedTopicNames == {"test", "usgs", "test:a"}

SharedIds == {"a", "a:a"}

SharedSources ==
    [topic_name : SharedTopicNames, uses_redis : BOOLEAN,
     records : SeqsUpTo({Record(i) : i \in SharedIds}, MaxBatch)]

SharedKeys ==
    UNION {KeysOfBatch : KeysOfBatch \in
              {{get_redis_key(src, get_records(src)[i]) :
                   i \in DOMAIN get_records(src)} : src \in SharedSources}}

\* a key of one of the sources is in the cache before an invocation
StoreShared ==
    /\ pc = "idle"
    /\ \E key \in SharedKeys :
         /\ cache' = store(cache, key)
         /\ cache0' = store(cache, key)
    /\ UNCHANGED <<brokerTopics, pc, source, force_post, response,
                   topic_exists, records, payload, raised, calls, env,
                   method, peer, cli, undelivered>>

\* lines 331-340, on one of the sources that share the cache
InvokeShared ==
    /\ pc = "idle"
    /\ \E src \in SharedSources, force \in BOOLEAN :
         /\ source' = src
         /\ force_post' = force
    /\ response' = InitialResponse
    /\ topic_exists' = "None"
    /\ records' = NoRecords
    /\ payload' = NoPayload
    /\ raised' = ""
    /\ calls' = <<>>
    /\ env' = NoEnv
    /\ cache0' = cache
    /\ pc' = "check_topic"
    /\ method' = ""
    /\ UNCHANGED <<cache, brokerTopics, peer, cli, undelivered>>

NextShared ==
    \/ StoreShared
    \/ InvokeShared
    \/ PostCheckTopic
    \/ PostCreateTopic
    \/ PostBypassCreation
    \/ PostGetSourceRecords
    \/ PostWriteValues
    \/ Finish

SpecShared == Init /\ [][NextShared]_vars

(***************************************************************************)
(* Dependencies that never answer.  The HTTP calls of the dispatcher carry *)
(* timeout=10 (lines 163, 177, 237, 261, 396): one that gets no answer     *)
(* raises requests.Timeout, a RequestException, and is the "err" outcome   *)
(* above.  The Redis client is built by redis.from_url(address) with no    *)
(* socket timeout (line 57), and store and get run the command with        *)
(* run_until_complete (lines 72, 87): a command the server never answers   *)
(* never completes.                                                        *)
(***************************************************************************)
\* socket_timeout of the client of line 57
redis_socket_timeout == "None"

\* line 299, first lookup of the comprehension: the server takes the GET and
\* never answers it
PostRedisGetBlocks ==
    /\ pc = "get_records"
    /\ redis_socket_timeout = "None"
    /\ source.uses_redis
    /\ Len(get_records(source)) > 0
    /\ env' = [env EXCEPT !.get_records = "ok", !.redis_get = "hung"]
    /\ calls' = calls \o <<Call("source.get_records", "")>>
                      \o SubSeq(RedisGets(source, get_records(source)), 1, 1)
    /\ pc' = "blocked"
    /\ UNCHANGED <<cache, brokerTopics, source, force_post, response,
                   topic_exists, records, payload, raised, cache0,
                   method, peer, cli, undelivered>>

\* a step of the call chain of post
PostStep ==
    \/ PostCheckTopic
    \/ PostCreateTopic
    \/ PostBypassCreation
    \/ PostGetSourceRecords
    \/ PostRedisGetBlocks
    \/ PostWriteValues

NextLive ==
    \/ Store
    \/ Invoke
    \/ PostCheckTopic
    \/ PostCreateTopic
    \/ PostBypassCreation
    \/ PostGetSourceRecords
    \/ PostRedisGetBlocks
    \/ PostWriteValues
    \/ Finish

\* post is one synchronous call chain: while it has a statement to run, it
\* runs it
SpecLive == Init /\ [][NextLive]_vars /\ WF_vars(PostStep)

(***************************************************************************)
(* The usgs_earthquake_data command.  click converts the arguments and     *)
(* runs each option's callback; a callback that raises BadParameter ends   *)
(* the command with that one message, before the body runs.                *)
(***************************************************************************)
\* values given for the options: around each limit of the validators
DayValues == {-1, 0, 1, 9999, 10000, 10001}
HourValues == {-24, -1, 0, 1, 24}
RadiusValues == {-1, 0, 1, 5000, 5001}
LatitudeValues == {-91, -90, 91}
LongitudeValues == {-181, 180, 181}
MagnitudeValues == {-1, 0, 5, 10, 11}

Argvs ==
    {Argv(d, h, r, la, lo, l, u, p) :
        d \in DayValues, h \in HourValues, r \in RadiusValues,
        la \in LatitudeValues, lo \in LongitudeValues,
        l \in MagnitudeValues, u \in MagnitudeValues, p \in BOOLEAN}

\* timedelta(days, 0, 0, 0, 0, hours, 0), in hours
timedelta(days, hours) == days * 24 + hours

\* check_duration refusing the maximum itself
check_duration_ExclusiveMax(value) ==
    LET total_duration == timedelta(value[1], value[2]) IN
    IF total_duration >= timedelta(10000, 0)
    THEN BadParameter("duration", "too large")
    ELSE IF total_duration < timedelta(0, 1)
    THEN BadParameter("duration", "too small")
    ELSE Accepted

\* cli.py lines 17-34
check_duration(value) ==
    LET total_duration == timedelta(value[1], value[2]) IN
    IF total_duration > timedelta(10000, 0)
    THEN BadParameter("duration", "too large")
    ELSE IF total_duration < timedelta(0, 1)
    THEN BadParameter("duration", "too small")
    ELSE Accepted

\* check_radius letting a radius of 0 through
check_radius_AcceptsZero(value) ==
    IF value > 5000 THEN BadParameter("radius", "too large")
    ELSE IF value < 0 THEN BadParameter("radius", "too small")
    ELSE Accepted

\* cli.py lines 37-50
check_radius(value) ==
    IF value > 5000 THEN BadParameter("radius", "too large")
    ELSE IF value <= 0 THEN BadParameter("radius", "too small")
    ELSE Accepted

\* cli.py lines 53-79: the latitude is looked at first
check_coords(value) ==
    IF value[1] < -90 THEN BadParameter("latitude", "too low")
    ELSE IF value[1] > 90 THEN BadParameter("latitude", "too high")
    ELSE IF value[2] < -180 THEN BadParameter("longitude", "too low")
    ELSE IF value[2] > 180 THEN BadParameter("longitude", "too high")
    ELSE Accepted

\* cli.py lines 82-114: the first test that fails raises
check_magnitude_bounds(value) ==
    IF value[1] < 0 THEN BadParameter("minimum magnitude", "too small")
    ELSE IF value[1] > 10 THEN BadParameter("minimum magnitude", "too large")
    ELSE IF value[2] > 10 THEN BadParameter("maximum magnitude", "too large")
    ELSE IF value[2] < 0 THEN BadParameter("maximum magnitude", "too small")
    ELSE IF value[1] > value[2]
    THEN BadParameter("minimum magnitude", "cannot excede")
    ELSE Accepted

\* what each callback raises on these arguments
Raised(argv) ==
    {check_duration(argv.duration), check_radius(argv.radius),
     check_coords(argv.coords),
     check_magnitude_bounds(argv.magnitude_bounds)} \ {Accepted}

\* click parses a command line.  The options are processed in the order
\* they were given, so the callback that raises first is any of those that
\* raise; the command ends with its message, and with none the body runs.
Parse(argv) ==
    IF Raised(argv) = {}
    THEN {[IdleCli EXCEPT !.phase = "parsed", !.argv = argv]}
    ELSE {[IdleCli EXCEPT !.phase = "rejected", !.argv = argv, !.error = e] :
             e \in Raised(argv)}

\* a command line with any of the values above
CliParse ==
    /\ cli.phase = "idle"
    /\ pc = "idle"
    /\ \E argv \in Argvs : cli' \in Parse(argv)
    /\ UNCHANGED <<cache, brokerTopics, pc, source, force_post, response,
                   topic_exists, records, payload, raised, calls, env,
                   cache0, method, peer, undelivered>>

\* the common usage with and without --post, and with a duration of nothing
TypicalArgvs ==
    {DefaultArgv,
     [DefaultArgv EXCEPT !.post = TRUE],
     [DefaultArgv EXCEPT !.post = TRUE, !.duration = <<0, 0>>]}

\* a command line of the common usage, on a Redis server and a broker in
\* any state
CliParseTypical ==
    /\ cli.phase = "idle"
    /\ pc = "idle"
    /\ \E argv \in TypicalArgvs : cli' \in Parse(argv)
    /\ UNCHANGED <<cache, brokerTopics, pc, source, force_post, response,
                   topic_exists, records, payload, raised, calls, env,
                   cache0, method, peer, undelivered>>

\* the command posts when the query found something, with or without --post
ShouldPost_IgnoresFlag(post, results) == Len(results) > 0

\* sources/usgs/commands.py lines 178-193: the body goes on to post when
\* neither `return` is taken
ShouldPost(post, results) == Len(results) > 0 /\ post

\* the USGSSource the command builds; get_records queries USGS again
USGSSources == {src \in Sources : src.topic_name = "usgs"}

\* sources/usgs/commands.py lines 147-199, up to the call of post.  The
\* arguments are not read again after the query (lines 165-176): from here
\* the state keeps the --post flag and forgets the rest of them.
CliCommand ==
    /\ cli.phase = "parsed"
    /\ pc = "idle"
    /\ \E querying \in HttpOutcome, results \in Batches, src \in USGSSources :
       LET post == cli.argv.post
           read == [cli EXCEPT !.argv = [DefaultArgv EXCEPT !.post = post],
                               !.queried = TRUE,
                               !.output = <<"Querying USGS with post mode "
                                   \o (IF post THEN "enabled" ELSE "disabled")
                                   \o "...">>] IN
       IF querying = "err"
       THEN /\ cli' = [read EXCEPT !.phase = "crashed"]
            /\ UNCHANGED <<pc, source, force_post, response, topic_exists,
                           records, payload, raised, calls, env, cache0>>
       ELSE IF Len(results) = 0
       THEN /\ cli' = [read EXCEPT
                         !.phase = "done",
                         !.output = @ \o <<"SUCCESS! (kinda)",
                             "No results found for the provided criteria :(">>]
            /\ UNCHANGED <<pc, source, force_post, response, topic_exists,
                           records, payload, raised, calls, env, cache0>>
       ELSE IF ~ShouldPost(post, results)
       THEN /\ cli' = [read EXCEPT
                         !.phase = "done",
                         !.output = @ \o <<"SUCCESS!",
                             "Post mode is disabled: "
                             \o "No data will be sent to Kafka.">>]
            /\ UNCHANGED <<pc, source, force_post, response, topic_exists,
                           records, payload, raised, calls, env, cache0>>
       ELSE /\ cli' = [read EXCEPT
                         !.phase = "posting",
                         !.posted = TRUE,
                         !.output = @ \o <<"SUCCESS!",
                             "Post mode enabled: Sending data...">>]
            /\ source' = src
            /\ force_post' = FALSE
            /\ response' = InitialResponse
            /\ topic_exists' = "None"
            /\ records' = NoRecords
            /\ payload' = NoPayload
            /\ raised' = ""
            /\ calls' = <<>>
            /\ env' = NoEnv
            /\ cache0' = cache
            /\ pc' = "check_topic"
    /\ UNCHANGED <<cache, brokerTopics, method, peer, undelivered>>

\* the command has ended: with the BadParameter of a callback, by a return
\* of its body, with the exception of its query, or after post
CliExit ==
    /\ \/ cli.phase \in {"rejected", "done", "crashed"}
       \/ cli.phase = "posting" /\ pc = "idle"
    /\ cli' = IdleCli
    /\ UNCHANGED <<cache, brokerTopics, pc, source, force_post, response,
                   topic_exists, records, payload, raised, calls, env,
                   cache0, method, peer, undelivered>>

\* command lines of every kind, on a fresh Redis server
NextValidate ==
    \/ CliParse
    \/ CliCommand
    \/ PostCheckTopic
    \/ PostCreateTopic
    \/ PostBypassCreation
    \/ PostGetSourceRecords
    \/ PostWriteValues
    \/ Finish
    \/ CliExit

SpecValidate == Init /\ [][NextValidate]_vars

NextCli ==
    \/ Store
    \/ CliParseTypical
    \/ CliCommand
    \/ PostCheckTopic
    \/ PostCreateTopic
    \/ PostBypassCreation
    \/ PostGetSourceRecords
    \/ PostWriteValues
    \/ Finish
    \/ CliExit

SpecCli == Init /\ [][NextCli]_vars

(***************************************************************************)
(* Two callers.  A second caller builds its own dispatcher on the same     *)
(* source and runs post while the first invocation is under way; the two   *)
(* share the Redis server and the broker and nothing else.  The steps of    *)
(* the second invocation are those of post, on its own locals.             *)
(***************************************************************************)
mainVars == <<pc, source, force_post, response, topic_exists, records,
              payload, raised, calls, env, cache0, method, cli, undelivered>>

\* lines 331-340
PeerInvoke ==
    /\ pc \notin {"idle"}
    /\ peer.pc = "idle"
    /\ peer' = [IdlePeer EXCEPT !.pc = "check_topic"]
    /\ UNCHANGED <<cache, brokerTopics, mainVars>>

\* lines 342-345
PeerCheckTopic ==
    /\ peer.pc = "check_topic"
    /\ \E clusters \in HttpOutcome, listing \in HttpOutcome :
         LET r == _handle_topic_exists(peer.response.requests, source,
                                       brokerTopics, clusters, listing) IN
         peer' = [peer EXCEPT
                    !.env.check_clusters = clusters,
                    !.env.check_topics = IF clusters = "ok" THEN listing
                                         ELSE "unused",
                    !.response.requests = r.request,
                    !.topic_exists = r.ret,
                    !.calls = @ \o r.calls,
                    !.pc = AfterCheck(r.ret, force_post)]
    /\ UNCHANGED <<cache, brokerTopics, mainVars>>

\* lines 347-350
PeerCreateTopic ==
    /\ peer.pc = "create_topic"
    /\ NeedsCreation(force_post, peer.topic_exists)
    /\ \E clusters \in HttpOutcome, posting \in HttpOutcome :
         LET r == _post_new_topic(source, clusters, posting) IN
         /\ peer' = [peer EXCEPT
                       !.env.create_clusters = clusters,
                       !.env.create_post = IF clusters = "ok" THEN posting
                                           ELSE "unused",
                       !.response.requests.create_topic = r.ret,
                       !.calls = @ \o r.calls,
                       !.pc = AfterCreate(r.ret)]
         /\ brokerTopics' = brokerTopics \cup r.created
    /\ UNCHANGED <<cache, mainVars>>

\* lines 351-358
PeerBypassCreation ==
    /\ peer.pc = "create_topic"
    /\ ~NeedsCreation(force_post, peer.topic_exists)
    /\ peer' = [peer EXCEPT
                  !.response.requests.create_topic =
                      Report("Success", MsgBypass),
                  !.pc = "get_records"]
    /\ UNCHANGED <<cache, brokerTopics, mainVars>>

\* lines 360-378
PeerGetSourceRecords ==
    /\ peer.pc = "get_records"
    /\ \E fetching \in HttpOutcome, lookup \in HttpOutcome :
       LET r == _get_source_records(source, cache, fetching, lookup)
           looked == IF \E i \in DOMAIN r.calls : r.calls[i].op = "redis.get"
                     THEN lookup ELSE "unused"
           seen == [peer EXCEPT !.env.get_records = fetching,
                                !.env.redis_get = looked,
                                !.records = [none |-> r.none,
                                             list |-> r.list],
                                !.calls = @ \o r.calls,
                                !.raised = r.raised] IN
       peer' = IF r.raised # ""
               THEN [seen EXCEPT !.pc = "raised"]
               ELSE IF r.none
               THEN [seen EXCEPT !.response.requests.write_values =
                                     Report("Warning", MsgNoEntries),
                                 !.pc = "returned"]
               ELSE IF Len(r.list) = 0
               THEN [seen EXCEPT !.response.requests.write_values =
                                     Report("Warning", MsgAllPresent),
                                 !.pc = "returned"]
               ELSE [seen EXCEPT !.payload = [assembled |-> TRUE,
                                              records |-> r.list],
                                 !.pc = "write_values"]
    /\ UNCHANGED <<cache, brokerTopics, mainVars>>

\* lines 390-416
PeerWriteValues ==
    /\ peer.pc = "write_values"
    /\ \E answer \in HttpOutcome, storing \in HttpOutcome :
         LET asked == [peer EXCEPT
                         !.env.write_post = answer,
                         !.env.redis_store = IF source.uses_redis
                                             THEN storing ELSE "unused"]
             sent == peer.calls \o WriteRequests(source, peer.payload) IN
         IF ~hasattr(requests_in_post, "request")
         THEN /\ peer' = [asked EXCEPT !.raised = "AttributeError",
                                       !.pc = "raised"]
              /\ cache' = cache
         ELSE IF answer = "err"
         THEN /\ peer' = [asked EXCEPT
                            !.response =
                                ("write_values" :>
                                    Report("Error",
                                           "Error writing values during POST: "
                                           \o ExcText)) @@ peer.response,
                            !.calls = sent,
                            !.pc = "returned"]
              /\ cache' = cache
         ELSE IF source.uses_redis /\ storing = "err"
         THEN /\ peer' = [asked EXCEPT
                            !.raised = "redis.ConnectionError",
                            !.calls = Append(sent,
                                Call("redis.store", get_redis_key(
                                    source, peer.payload.records[1]))),
                            !.pc = "raised"]
              /\ cache' = cache
         ELSE /\ peer' = [asked EXCEPT
                            !.response =
                                ("write_values" :>
                                    Report("Success", ResponseText))
                                @@ peer.response,
                            !.calls = sent
                                \o (IF source.uses_redis
                                    THEN [i \in 1..Len(peer.payload.records)
                                          |-> Call("redis.store",
                                                   get_redis_key(source,
                                                     peer.payload.records[i]))]
                                    ELSE <<>>),
                            !.pc = "returned"]
              /\ cache' = IF source.uses_redis
                          THEN StoreAll(cache, source, peer.payload.records)
                          ELSE cache
    /\ UNCHANGED <<brokerTopics, mainVars>>

\* the second invocation has ended
PeerFinish ==
    /\ peer.pc \in {"returned", "raised"}
    /\ pc \in {"returned", "raised"}
    /\ peer' = IdlePeer
    /\ UNCHANGED <<cache, brokerTopics, mainVars>>

NextConcurrent ==
    \/ Store
    \/ Invoke
    \/ PostCheckTopic
    \/ PostCreateTopic
    \/ PostBypassCreation
    \/ PostGetSourceRecords
    \/ PostWriteValues
    \/ Finish
    \/ PeerInvoke
    \/ PeerCheckTopic
    \/ PeerCreateTopic
    \/ PeerBypassCreation
    \/ PeerGetSourceRecords
    \/ PeerWriteValues
    \/ PeerFinish

SpecConcurrent == Init /\ [][NextConcurrent]_vars

(***************************************************************************)
(* Vocabulary of the properties                                            *)
(***************************************************************************)
Ended == pc \in {"returned", "raised"}

Status(report) == IF "status" \in DOMAIN report THEN report.status ELSE ""

KeysOf(src, recs) == {get_redis_key(src, recs[i]) : i \in DOMAIN recs}

Issued(op) == \E i \in DOMAIN calls : calls[i].op = op

\* a call is the write request of this invocation
IsWrite(c) == c.op = "POST" /\ c.arg = WriteUrl(source)

\* the write request reached the REST proxy
TransportInvoked == \E i \in DOMAIN calls : IsWrite(calls[i])

\* the write request was made and answered 2xx
Delivered == TransportInvoked /\ env.write_post = "ok"

\* C1: with uses_redis, no record whose key was cached when post started is
\* in the batch assembled for the transport, nor in `records` of the outcome
C1_RedeliverySuppression ==
    source.uses_redis =>
        /\ \A i \in DOMAIN payload.records :
             get_redis_key(source, payload.records[i]) \notin cache0
        /\ \A i \in DOMAIN response.records :
             get_redis_key(source, response.records[i]) \notin cache0

C1_Witness ==
    /\ pc = "write_values"
    /\ source.uses_redis
    /\ payload.records # <<>>
    /\ \E i \in DOMAIN source.records :
         get_redis_key(source, source.records[i]) \in cache0

\* C2: when check, creation and delivery all succeed on a non-empty filtered
\* batch, post returns succeeded=true, requests.write_values Success with the
\* transport's response, and records equal to the delivered batch
C2_SuccessOutcome ==
    (/\ Ended
     /\ Status(response.requests.check_topic) = "Success"
     /\ Status(response.requests.create_topic) = "Success"
     /\ payload.assembled
     /\ env.write_post = "ok")
    => /\ pc = "returned"
       /\ response.succeeded
       /\ response.requests.write_values = Report("Success", ResponseText)
       /\ response.records = payload.records

\* C3: after a post on a uses_redis source whose write request the REST proxy
\* accepts, the key of every record of the batch is present in the cache
C3_CommitAfterDelivery ==
    (/\ Ended
     /\ source.uses_redis
     /\ payload.assembled
     /\ env.write_post = "ok")
    => \A i \in DOMAIN payload.records :
         get(cache, get_redis_key(source, payload.records[i])) # "None"

\* C4: post leaves the cache as it found it unless the delivery succeeded,
\* and every key it adds is the key of a delivered record
C4_CacheWrittenOnlyAfterDelivery ==
    pc # "idle" =>
        IF Delivered
        THEN cache \ cache0 \subseteq KeysOf(source, payload.records)
        ELSE cache = cache0

C4_Witness ==
    /\ pc = "raised"
    /\ source.uses_redis
    /\ payload.records # <<>>
    /\ env.write_post = "err"
    /\ cache = cache0

\* C5: when the write request fails for a non-empty filtered batch, the
\* outcome has succeeded=false, requests.write_values Error, and no records
C5_DeliveryFailure ==
    (/\ Ended
     /\ payload.assembled
     /\ env.write_post = "err")
    => /\ pc = "returned"
       /\ ~response.succeeded
       /\ Status(response.requests.write_values) = "Error"
       /\ response.records = <<>>

\* C6: in every returned outcome, succeeded only if the three reports are
\* Success, and records non-empty only if the delivery succeeded
C6_OutcomeInvariant ==
    pc = "returned" =>
        /\ response.succeeded =>
             /\ Status(response.requests.check_topic) = "Success"
             /\ Status(response.requests.create_topic) = "Success"
             /\ Status(response.requests.write_values) = "Success"
        /\ response.records # <<>> => Delivered

C6_Witness ==
    /\ pc = "returned"
    /\ Status(response.requests.check_topic) = "Success"
    /\ Status(response.requests.create_topic) = "Error"
    /\ ~response.succeeded
    /\ response.records = <<>>

\* C7: if get_records returns an empty batch, post returns succeeded=false,
\* a Warning on write_values whose message contains "No entries found", no
\* records, and the transport is not invoked
C7_EmptyBatchShortCircuit ==
    (/\ Ended
     /\ Issued("source.get_records")
     /\ env.get_records = "ok"
     /\ get_records(source) = <<>>)
    => /\ pc = "returned"
       /\ ~response.succeeded
       /\ Status(response.requests.write_values) = "Warning"
       /\ \E rest \in {"", ", aborting POST request"} :
            response.requests.write_values.message
                = "No entries found" \o rest
       /\ response.records = <<>>
       /\ ~TransportInvoked

C7_Witness ==
    /\ pc = "returned"
    /\ Issued("source.get_records")
    /\ env.get_records = "ok"
    /\ get_records(source) = <<>>
    /\ Status(response.requests.write_values) = "Warning"

\* C8: with uses_redis and a non-empty batch whose keys Redis reports cached, post
\* returns succeeded=false with a Warning on write_values, and the transport
\* is not invoked
C8_AllCachedShortCircuit ==
    (/\ Ended
     /\ Issued("source.get_records")
     /\ env.get_records = "ok"
     /\ env.redis_get = "ok"
     /\ source.uses_redis
     /\ get_records(source) # <<>>
     /\ KeysOf(source, get_records(source)) \subseteq cache0)
    => /\ pc = "returned"
       /\ ~response.succeeded
       /\ Status(response.requests.write_values) = "Warning"
       /\ ~TransportInvoked

C8_Witness ==
    /\ pc = "returned"
    /\ Issued("source.get_records")
    /\ env.redis_get = "ok"
    /\ source.uses_redis
    /\ get_records(source) # <<>>
    /\ KeysOf(source, get_records(source)) \subseteq cache0
    /\ response.requests.write_values = Report("Warning", MsgAllPresent)

\* C9: without uses_redis, the batch assembled for the transport is the
\* batch get_records returned, whatever the cache holds
C9_RedisDisabledPassthrough ==
    (~source.uses_redis /\ payload.assembled)
    => payload.records = get_records(source)

C9_Witness ==
    /\ ~source.uses_redis
    /\ payload.assembled
    /\ KeysOf(source, get_records(source)) \cap cache0 # {}

\* C10: without uses_redis, post issues no Redis command and leaves the
\* cache as it found it, on every path
C10_RedisDisabledNoCacheAccess ==
    (pc # "idle" /\ ~source.uses_redis)
    => /\ cache = cache0
       /\ ~Issued("redis.get")
       /\ ~Issued("redis.store")

C10_Witness ==
    /\ Ended
    /\ ~source.uses_redis
    /\ Len(get_records(source)) = MaxBatch
    /\ KeysOf(source, get_records(source)) \subseteq cache0
    /\ cache = cache0

(***************************************************************************)
(* Topic provisioning and failure handling                                 *)
(***************************************************************************)
CountCalls(c) == Cardinality({i \in DOMAIN calls : calls[i] = c})

\* _post_new_topic was called: the cluster lookup was made a second time
CreateEntered == CountCalls(Call("GET", "/v3/clusters")) >= 2

\* the creation request itself was sent
CreatePostIssued ==
    CountCalls(Call("POST", "/v3/clusters/{cluster_id}/topics")) >= 1

\* the existence check answered and post is past lines 347-358
PastCreate ==
    /\ pc \in {"get_records", "write_values", "returned", "raised"}
    /\ topic_exists # "None"

NoRedisCommand == ~Issued("redis.get") /\ ~Issued("redis.store")

\* C11 as stated: after an existence check that did not error, the creation
\* request is issued if and only if the check reported false or force_post
C11_CreationRequestIffNeeded ==
    PastCreate =>
        (CreatePostIssued <=> (force_post \/ topic_exists = "False"))

\* C11 amended: after an existence check that did not error, the creation
\* step (_post_new_topic) is entered if and only if the check reported false
\* or force_post; its creation request is issued if and only if, in
\* addition, the step's own cluster lookup succeeded
C11_CreationGating ==
    PastCreate =>
        /\ CreateEntered <=> (force_post \/ topic_exists = "False")
        /\ CreatePostIssued <=> (/\ force_post \/ topic_exists = "False"
                                 /\ env.create_clusters = "ok")

C11_Witness ==
    /\ PastCreate
    /\ force_post
    /\ topic_exists = "True"
    /\ CreatePostIssued

\* C12: when the topic exists and force_post is false, create_topic reports
\* Success with a "bypassing creation" message, no creation is attempted, and
\* post goes on to fetch and, with a non-empty filtered batch, to the write
C12_SkipReportsSuccess ==
    (/\ pc \in {"get_records", "write_values", "returned", "raised"}
     /\ topic_exists = "True"
     /\ ~force_post)
    => /\ Status(response.requests.create_topic) = "Success"
       /\ \E before \in {"Relevant topic already exists in kafka, "},
             after \in {" POST request."} :
            response.requests.create_topic.message
                = before \o "bypassing creation" \o after
       /\ ~CreateEntered
       /\ pc # "get_records" => Issued("source.get_records")
       /\ (Ended /\ payload.assembled) => env.write_post # "unused"

C12_Witness ==
    /\ Ended
    /\ topic_exists = "True"
    /\ ~force_post
    /\ response.requests.create_topic = Report("Success", MsgBypass)
    /\ payload.assembled
    /\ env.write_post # "unused"

C14_ForceIgnoresCheck ==
    (Ended /\ force_post) => CreateEntered

\* C15: when the creation fails, post returns succeeded=false with
\* create_topic Error and write_values empty; no get_records, no delivery,
\* no cache access
C15_TopicCreationFailure ==
    (/\ pc \notin {"idle", "check_topic", "create_topic"}
     /\ env.create_clusters = "err" \/ env.create_post = "err")
    => /\ pc = "returned"
       /\ ~response.succeeded
       /\ Status(response.requests.create_topic) = "Error"
       /\ response.requests.write_values = EmptyDict
       /\ response.records = <<>>
       /\ ~Issued("source.get_records")
       /\ ~TransportInvoked
       /\ NoRedisCommand
       /\ cache = cache0

C15_Witness ==
    /\ pc = "returned"
    /\ env.create_post = "err"
    /\ source.uses_redis
    /\ get_records(source) # <<>>
    /\ Status(response.requests.create_topic) = "Error"

\* C16: whichever dependency fails, post ends by returning an outcome with a
\* step-level Error, never by an exception
C16_NoExceptionEscapes ==
    (Ended /\ \E dep \in DOMAIN env : env[dep] = "err")
    => /\ pc = "returned"
       /\ raised = ""
       /\ \E step \in DOMAIN response.requests :
            Status(response.requests[step]) = "Error"

\* C17: when the delivery succeeds and the cache write fails, post still
\* returns the success outcome
C17_CacheWriteFailureKeepsOutcome ==
    (/\ Ended
     /\ payload.assembled
     /\ env.write_post = "ok"
     /\ env.redis_store = "err")
    => /\ pc = "returned"
       /\ response.succeeded
       /\ Status(response.requests.write_values) = "Success"

\* position of a step in the order of post
Rank(p) ==
    CASE p = "idle" -> 0
      [] p = "check_topic" -> 1
      [] p = "create_topic" -> 2
      [] p = "get_records" -> 3
      [] p = "write_values" -> 4
      [] OTHER -> 5

\* the step an outbound call belongs to; 0 for the cluster lookup, which
\* both the check and the creation make
StepOfCall(c) ==
    CASE c = Call("GET", "/v3/clusters/{cluster_id}/topics") -> 1
      [] c = Call("POST", "/v3/clusters/{cluster_id}/topics") -> 2
      [] c.op \in {"source.get_records", "redis.get"} -> 3
      [] IsWrite(c) -> 4
      [] c.op = "redis.store" -> 5
      [] OTHER -> 0

CallsInStepOrder ==
    \A i, j \in DOMAIN calls :
        (i < j /\ StepOfCall(calls[i]) > 0 /\ StepOfCall(calls[j]) > 0)
        => StepOfCall(calls[i]) <= StepOfCall(calls[j])

EachStepOnce ==
    /\ CountCalls(Call("GET", "/v3/clusters")) <= 2
    /\ CountCalls(Call("GET", "/v3/clusters/{cluster_id}/topics")) <= 1
    /\ CountCalls(Call("POST", "/v3/clusters/{cluster_id}/topics")) <= 1
    /\ CountCalls(Call("source.get_records", "")) <= 1
    /\ Cardinality({i \in DOMAIN calls : IsWrite(calls[i])}) <= 1

\* C18: within one invocation post only moves forward through check,
\* create, fetch-and-filter, write; its outbound calls appear in that order
\* and no step is made twice
C18_StepOrdering ==
    /\ [](CallsInStepOrder /\ EachStepOnce)
    /\ [][pc' # "idle" => Rank(pc') > Rank(pc)]_vars

C18_Witness ==
    /\ pc = "raised"
    /\ raised = "AttributeError"
    /\ CreatePostIssued
    /\ Issued("redis.get")
    /\ Len(calls) >= 6

\* C20: publish with NONE or an unrecognized method reports a write_values
\* Error "no publisher found for <method>" once it has a batch to deliver,
\* and on no path delivers, commits or reports success
C20_UnrecognizedMethod ==
    (Ended /\ method \in Methods \ Recognized)
    => /\ ~response.succeeded
       /\ response.records = <<>>
       /\ Status(response.requests.write_values) # "Success"
       /\ ~Issued("deliver")
       /\ ~Issued("redis.store")
       /\ cache = cache0
       /\ payload.assembled =>
            /\ pc = "returned"
            /\ response.requests.write_values
                 = Report("Error", "no publisher found for " \o method)

C20_Witness ==
    /\ pc = "returned"
    /\ method = "NONE"
    /\ payload.assembled
    /\ Status(response.requests.write_values) = "Error"

(***************************************************************************)
(* Two interleaved invocations                                             *)
(***************************************************************************)
PeerEnded == peer.pc \in {"returned", "raised"}

PeerDelivered ==
    /\ \E i \in DOMAIN peer.calls : IsWrite(peer.calls[i])
    /\ peer.env.write_post = "ok"

\* both invocations found the same record uncached and put it in the batch
\* they assembled for the transport
SameRecordInBothBatches ==
    \E i \in DOMAIN payload.records, j \in DOMAIN peer.payload.records :
        payload.records[i] = peer.payload.records[j]

\* C19: in the interleaving where both invocations fetch and filter before
\* either commits, with the REST proxy accepting both writes, the record
\* they have in common is delivered by both
C19_RaceDeliversTwice ==
    (/\ Ended
     /\ PeerEnded
     /\ source.uses_redis
     /\ SameRecordInBothBatches
     /\ env.write_post = "ok"
     /\ peer.env.write_post = "ok")
    => (Delivered /\ PeerDelivered)

\* no invocation of post gets a write request through, alone or interleaved
NothingDelivered == ~Delivered /\ ~PeerDelivered

(***************************************************************************)
(* The membership cache                                                    *)
(***************************************************************************)
\* C21: a key that was stored is found by get, also when it is stored a
\* second time; a key that was never stored is not found (None): a key
\* comes to be found only by a step that stores it, a direct store or the
\* redis.store of a commit.
C21_CacheRoundTrip ==
    /\ [](\A k \in Keys :
            /\ get(store(cache, k), k) # "None"
            /\ get(store(store(cache, k), k), k) # "None"
            /\ k \notin cache => get(cache, k) = "None"
            /\ \A other \in Keys \ {k} :
                 get(store(cache, k), other) = get(cache, other))
    /\ [][\A k \in Keys :
            (get(cache', k) # "None" /\ get(cache, k) = "None")
            => \/ pc = "idle" /\ cache' = store(cache, k)
               \/ \E i \in DOMAIN calls' :
                     calls'[i] = Call("redis.store", k)]_vars

C21_Witness ==
    /\ get(cache, "test:a") # "None"
    /\ get(cache, "test:b") = "None"
    /\ pc = "idle"

\* C22: a key that is on the server stays on it, whatever post, store and
\* get do afterwards
C22_CacheOnlyGrows == [][cache \subseteq cache']_vars

C22_Witness ==
    /\ Cardinality(cache) >= 2
    /\ pc = "returned"
    /\ Issued("redis.get")

\* C23: _get_topic_exists hands back a str when the cluster lookup or the
\* topic listing fails and a bool exactly when both succeed; no failure of
\* the two calls leaves post as an exception
C23_CheckFailuresAreValues ==
    /\ \A clusters \in HttpOutcome, listing \in HttpOutcome :
         LET found == _get_topic_exists(source, brokerTopics,
                                        clusters, listing) IN
         /\ found.type \in {"str", "bool"}
         /\ found.type = "bool" <=> (clusters = "ok" /\ listing = "ok")
         /\ found.type = "bool" =>
              (found.bool <=> FullTopicName(source) \in brokerTopics)
    /\ pc \notin {"idle", "check_topic"} =>
         /\ topic_exists = "None"
              <=> (env.check_clusters = "err" \/ env.check_topics = "err")
         /\ topic_exists = "None" =>
              /\ pc = "returned"
              /\ raised = ""
              /\ Status(response.requests.check_topic) = "Error"

C23_Witness ==
    /\ pc = "returned"
    /\ env.check_clusters = "ok"
    /\ env.check_topics = "err"
    /\ topic_exists = "None"
    /\ raised = ""
    /\ ~force_post

(***************************************************************************)
(* Exactness of the filter                                                 *)
(***************************************************************************)
\* the records of recs whose key is not in c, in the order of recs
Uncached(src, c, recs) ==
    LET KeyAbsent(r) == get_redis_key(src, r) \notin c IN
    SelectSeq(recs, KeyAbsent)

\* C30: with uses_redis and a non-empty batch, what _get_source_records
\* hands to post is the batch without the records whose key was cached, in
\* the order of the batch; with none of its keys cached it is the batch
C30_FilterExact ==
    (/\ pc \in {"write_values", "returned", "raised"}
     /\ Issued("source.get_records")
     /\ env.get_records = "ok"
     /\ env.redis_get = "ok"
     /\ source.uses_redis
     /\ get_records(source) # <<>>)
    => /\ ~records.none
       /\ records.list = Uncached(source, cache0, get_records(source))
       /\ payload.assembled => payload.records = records.list
       /\ KeysOf(source, get_records(source)) \cap cache0 = {}
            => records.list = get_records(source)

\* the first record of the batch is cached and dropped, the second is kept
C30_Witness ==
    /\ pc = "write_values"
    /\ source.uses_redis
    /\ get_records(source) = <<Record("b"), Record("a")>>
    /\ cache0 = {get_redis_key(source, Record("b"))}
    /\ payload.records = <<Record("a")>>

(***************************************************************************)
(* Termination                                                             *)
(***************************************************************************)
\* C24: every invocation of post comes to an end, whatever its dependencies
\* do, a dependency that never answers included
C24_Termination == (pc = "check_topic") ~> Ended

\* post waits for an answer of the Redis server that does not come
BlockedOnRedis == pc = "blocked" /\ env.redis_get = "hung"

(***************************************************************************)
(* The usgs_earthquake_data command                                        *)
(***************************************************************************)
Echoed(line) == \E i \in DOMAIN cli.output : cli.output[i] = line

\* the query of the command answered with at least one earthquake
ResultsFound == Echoed("SUCCESS!")

\* the messages the command ended with
Reported == {cli.error} \ {Accepted}

\* the command line is still in the state: click has parsed it and the body
\* has not run
ArgvRead == cli.phase \in {"parsed", "rejected"}

\* C25: the command calls post only when --post was given and its query
\* found something; a command that ends without both has sent nothing and
\* has left the cache as it was
C25_PostGating ==
    /\ [](/\ cli.posted => (cli.argv.post /\ ResultsFound)
          /\ pc # "idle" => cli.posted
          /\ (cli.phase \in {"done", "crashed", "rejected"}) =>
               /\ ~cli.posted
               /\ pc = "idle"
               /\ calls = <<>>
               /\ cache = cache0
          /\ (cli.phase = "done") => (~cli.argv.post \/ ~ResultsFound)
          /\ (cli.queried /\ cli.argv.post /\ ResultsFound) => cli.posted)
    /\ [][(cli' # cli /\ ~cli'.posted) =>
            (cache' = cache /\ calls' = calls /\ pc' = pc)]_vars

C25_Witness ==
    /\ cli.phase = "done"
    /\ ~cli.argv.post
    /\ ResultsFound
    /\ cache # {}
    /\ calls = <<>>

\* C26: check_duration lets (days, hours) through exactly when they add up
\* to at least 1 hour and at most 10000 days; below it raises "too small",
\* above "too large", and the body of the command (the query) does not run
C26_DurationValidation ==
    ArgvRead =>
        LET days == cli.argv.duration[1]
            hours == cli.argv.duration[2]
            total == 24 * days + hours
            verdict == check_duration(cli.argv.duration) IN
        /\ verdict = Accepted <=> (total >= 1 /\ total <= 24 * 10000)
        /\ total < 1 => verdict = BadParameter("duration", "too small")
        /\ total > 24 * 10000
             => verdict = BadParameter("duration", "too large")
        /\ verdict # Accepted =>
             /\ cli.phase = "rejected"
             /\ Reported # {}
             /\ ~cli.queried
             /\ ~cli.posted

C26_Witness ==
    /\ cli.phase = "rejected"
    /\ cli.argv.duration = <<10000, 1>>
    /\ cli.error = BadParameter("duration", "too large")
    /\ ~cli.queried

\* C27: check_radius lets a radius through exactly when it is above 0 and at
\* most 5000; 0 and below is "too small", above 5000 "too large"
C27_RadiusValidation ==
    ArgvRead =>
        LET radius == cli.argv.radius
            verdict == check_radius(radius) IN
        /\ verdict = Accepted <=> (0 < radius /\ radius <= 5000)
        /\ radius <= 0 => verdict = BadParameter("radius", "too small")
        /\ radius > 5000 => verdict = BadParameter("radius", "too large")
        /\ verdict # Accepted => (cli.phase = "rejected" /\ ~cli.queried)

C27_Witness ==
    /\ cli.phase = "rejected"
    /\ cli.argv.radius = 0
    /\ cli.error = BadParameter("radius", "too small")

\* the other three options of the command line are valid
OnlyMagnitudeBoundsAtFault ==
    Raised(cli.argv) \subseteq
        {check_magnitude_bounds(cli.argv.magnitude_bounds)}

\* C28: the bounds (lower, upper) are let through exactly when
\* 0 <= lower <= upper <= 10; a bound outside 0..10 is refused with a message
\* naming the minimum or maximum magnitude, and lower > upper is refused
\* with "cannot excede"
C28_MagnitudeBoundsValidation ==
    (ArgvRead /\ OnlyMagnitudeBoundsAtFault) =>
        LET lower == cli.argv.magnitude_bounds[1]
            upper == cli.argv.magnitude_bounds[2] IN
        /\ cli.phase = "parsed"
             <=> (0 <= lower /\ lower <= upper /\ upper <= 10)
        /\ (lower < 0 \/ lower > 10 \/ upper < 0 \/ upper > 10) =>
             \E m \in Reported :
                m.names \in {"minimum magnitude", "maximum magnitude"}
        /\ lower > upper =>
             \E m \in Reported : m.says = "cannot excede"

\* C29: a command line with several invalid options is refused with the
\* message of every callback that refuses its value
C29_EveryViolationReported ==
    cli.phase = "rejected" => Raised(cli.argv) \subseteq Reported

(***************************************************************************)
(* The delivery request                                                    *)
(***************************************************************************)
\* the delivery requests the invocation has made to its transport
Deliveries == {i \in DOMAIN calls : calls[i].op = "deliver"}

\* what remains of the fetched batch after the filter
FilteredBatch ==
    IF source.uses_redis
    THEN Uncached(source, cache0, get_records(source))
    ELSE get_records(source)

C32_ExactNameMatch ==
    pc = "create_topic"
    => /\ env.check_clusters = "ok"
       /\ env.check_topics = "ok"
       /\ topic_exists = "True" <=> FullTopicName(source) \in brokerTopics

\* the cluster lists the namespace and a longer name that begins with the
\* dispatcher's, not the dispatcher's topic: the check has answered False
C32_Witness ==
    /\ pc = "create_topic"
    /\ namespace \in brokerTopics
    /\ FullTopicName(source) \o "_v2" \in brokerTopics
    /\ FullTopicName(source) \notin brokerTopics
    /\ topic_exists = "False"

(***************************************************************************)
(* Sources that share one cache                                            *)
(***************************************************************************)
\* a name holds the separator of the keys
HasColon(name) ==
    \E before \in SharedTopicNames, after \in SharedIds :
        name = before \o ":" \o after

\* the cache after `other` committed the keys of its whole batch to an
\* empty one
CommittedBy(other) == StoreAll({}, other, get_records(other))

\* the invoked source has fetched a batch and looked its keys up in a cache
\* that holds what `other` committed, and nothing else
FilteredAfter(other) ==
    /\ pc \in {"write_values", "returned", "raised"}
    /\ Issued("source.get_records")
    /\ env.get_records = "ok"
    /\ env.redis_get = "ok"
    /\ source.uses_redis
    /\ get_records(source) # <<>>
    /\ other.topic_name # source.topic_name
    /\ cache0 = CommittedBy(other)

\* C33 as stated: whatever the topic names and the record identifiers, the
\* keys committed by a source of another topic_name filter out no record of
\* the invoked source
C33_CrossSourceIsolation ==
    \A other \in SharedSources :
        FilteredAfter(other) => records.list = get_records(source)

\* C33: for topic names that hold no ":", whatever the record identifiers,
\* the keys committed by a source of another topic_name filter out no record
\* of the invoked source
C33_IsolationOfColonFreeTopics ==
    \A other \in SharedSources :
        (/\ FilteredAfter(other)
         /\ ~HasColon(other.topic_name)
         /\ ~HasColon(source.topic_name))
        => records.list = get_records(source)

\* the cache holds the key that "test" derives from an id, and the record of
\* "usgs" with that id has passed the filter
C33_Witness ==
    /\ pc = "write_values"
    /\ source.topic_name = "usgs"
    /\ source.uses_redis
    /\ get_records(source) = <<Record("a:a"), Record("a")>>
    /\ \E other \in SharedSources :
         /\ FilteredAfter(other)
         /\ other.topic_name = "test"
         /\ get_records(other) = get_records(source)
    /\ payload.records = get_records(source)

(***************************************************************************)
(* Invocations one after the other                                         *)
(***************************************************************************)
\* an invocation on a uses_redis source has ended in a successful delivery
\* that held a record of key k
DeliveredKey(k) ==
    /\ pc = "returned"
    /\ response.succeeded
    /\ source.uses_redis
    /\ k \in KeysOf(source, response.records)

AllStepsSucceeded ==
    /\ Ended
    /\ \A d \in DOMAIN env : env[d] \in {"ok", "unused"}
    /\ env.get_records = "ok"
    /\ env.write_post = "ok"

\* the invocation has fetched again a record that was in the batch of an
\* earlier invocation whose delivery failed
FetchedAgain(i) ==
    /\ i \in DOMAIN get_records(source)
    /\ get_redis_key(source, get_records(source)[i]) \in undelivered

\* C35: a record that was in the batch of an invocation whose delivery failed
\* is not suppressed afterwards: when a later invocation fetches it again
\* and all its steps succeed, the record is delivered by that invocation
C35_NoLossAfterFailedDelivery ==
    \A i \in 1..MaxBatch :
        (AllStepsSucceeded /\ FetchedAgain(i))
        => /\ payload.assembled
           /\ \E j \in DOMAIN payload.records :
                payload.records[j] = get_records(source)[i]
           /\ Delivered

(***************************************************************************)
(* Records of one batch with the same key                                  *)
(***************************************************************************)
\* how many times a record is in a batch
Occurrences(batch, r) == Cardinality({i \in DOMAIN batch : batch[i] = r})

C37_ReportsInPrefixOrder ==
    pc = "returned"
    => /\ response.requests.create_topic # EmptyDict
            => Status(response.requests.check_topic) = "Success"
       /\ response.requests.write_values # EmptyDict
            => Status(response.requests.create_topic) = "Success"

\* an outcome with its three reports filled: the topic was found missing and
\* created, and the batch turned out to be cached already
C37_Witness ==
    /\ pc = "returned"
    /\ topic_exists = "False"
    /\ Status(response.requests.check_topic) = "Success"
    /\ Status(response.requests.create_topic) = "Success"
    /\ CreatePostIssued
    /\ Status(response.requests.write_values) = "Warning"

(***************************************************************************)
(* Provisioning and the batch                                              *)
(***************************************************************************)
\* post has returned the Warning of a batch that is empty or wholly cached
WarningOutcome ==
    /\ pc = "returned"
    /\ Status(response.requests.write_values) = "Warning"

\* C38: the topic is provisioned before the batch is looked at and whatever
\* the batch is: when the check found the topic absent, or force_post is set,
\* and the batch turns out empty or wholly cached, the creation request has
\* been made and answered, and the topic is on the broker, by the time post
\* returns its Warning
C38_ProvisionedBeforeWarning ==
    (WarningOutcome /\ (force_post \/ topic_exists = "False"))
    => /\ CreatePostIssued
       /\ env.create_post = "ok"
       /\ Status(response.requests.create_topic) = "Success"
       /\ FullTopicName(source) \in brokerTopics
       /\ \A i, j \in DOMAIN calls :
            (/\ calls[i] = Call("POST", "/v3/clusters/{cluster_id}/topics")
             /\ calls[j].op = "source.get_records")
            => i < j

\* the topic was absent and the source had nothing: the outcome is the
\* Warning, and the topic is there
C38_Witness ==
    /\ WarningOutcome
    /\ topic_exists = "False"
    /\ ~force_post
    /\ get_records(source) = <<>>
    /\ response.requests.write_values.message = MsgNoEntries
    /\ FullTopicName(source) \in brokerTopics

(***************************************************************************)
(* The topic a dispatcher addresses                                        *)
(***************************************************************************)
\* the creation request of this invocation was made and answered 2xx
CreatedHere == CreatePostIssued /\ env.create_post = "ok"

====
